---- MODULE Spec2Model ----
(***************************************************************************)
(* Model of educe.stac.oneoff.weave: check_matches, compute_updates,       *)
(* compute_structural_updates / stretch_match, shift_char and shift_span.  *)
(*                                                                         *)
(* A match is a triple <<a, b, size>> (difflib's Match(a, b, size)): a is  *)
(* the source offset, b the target offset.  A span is <<char_start,        *)
(* char_end>>.  An annotation is a record [doc, id, span, type]; the pair  *)
(* (doc, id) is its identity.                                              *)
(***************************************************************************)
EXTENDS Integers, Sequences, FiniteSets, TLC

VARIABLES
    matches,            \* the match list handed to every function
    tgtLen,             \* len(tgt_doc.text())
    strict,             \* check_matches' strict flag
    srcUnits,           \* src_doc.units, as passed to compute_updates
    tgtUnits,           \* tgt_doc.units, as passed to compute_updates
    srcWS,              \* positions of src_doc.text() holding whitespace
    pc,                 \* position of the caller in the pipeline
    err,                \* the exception raised, "none" if none
    shift_if_ge,        \* Updates.shift_if_ge
    abnormal_src_only,  \* Updates.abnormal_src_only
    abnormal_tgt_only,  \* Updates.abnormal_tgt_only
    expected_src_only,  \* Updates.expected_src_only
    pools,              \* compute_structural_updates: the five unmatched_* lists
    stretch_map,        \* compute_structural_updates: entries still to iterate
    call,               \* the stretch_map entry being worked on and the next call on it
    query               \* last shift_char / shift_span call and its result

vars == <<matches, tgtLen, strict, srcUnits, tgtUnits, srcWS, pc, err,
          shift_if_ge, abnormal_src_only, abnormal_tgt_only,
          expected_src_only, pools, stretch_map, call, query>>

(***************************************************************************)
(* Bounds                                                                  *)
(***************************************************************************)
MaxPos == 3          \* text positions of the reconciliation runs: 0..MaxPos
MaxMatches == 3      \* longest match list
MaxShiftPos == 4     \* text positions of the shift-model runs
MaxUnits == 2        \* most annotations in one document
MaxTotalUnits == 3   \* most annotations in both documents together
MaxWS == 1           \* most whitespace characters in the source text

(***************************************************************************)
(* Sequence helpers (Python list semantics)                                *)
(***************************************************************************)
Range(s) == {s[k] : k \in 1..Len(s)}

Contains(s, x) == \E k \in 1..Len(s) : s[k] = x

\* list.remove(x): drops the first occurrence (the caller checks presence)
IndexOf(s, x) == CHOOSE k \in 1..Len(s) : s[k] = x /\ \A j \in 1..(k-1) : s[j] # x

Remove(s, x) ==
    LET k == IndexOf(s, x)
    IN  [j \in 1..(Len(s) - 1) |-> IF j < k THEN s[j] ELSE s[j + 1]]

\* "if x in l: l.remove(x)"
RemoveIfIn(s, x) == IF Contains(s, x) THEN Remove(s, x) ELSE s

(***************************************************************************)
(* educe.annotation.Span and educe.stac.context.enclosed                   *)
(***************************************************************************)
Span(start, end) == <<start, end>>

Encloses(outer, inner) == outer[1] <= inner[1] /\ outer[2] >= inner[2]

ShiftBy(span, offset) == <<span[1] + offset, span[2] + offset>>

enclosed(span, annos) ==
    LET inside(anno) == Encloses(span, anno.span)
    IN  SelectSeq(annos, inside)

(***************************************************************************)
(* src_gaps / tgt_gaps                                                     *)
(***************************************************************************)
RECURSIVE GapsFrom(_, _, _, _)
GapsFrom(ms, k, last_idx, side) ==
    IF k > Len(ms) THEN <<>>
    ELSE LET off == ms[k][side]
             rest == GapsFrom(ms, k + 1, off + ms[k][3], side)
         IN  IF off # last_idx
             THEN <<  <<last_idx, off - last_idx>>  >> \o rest
             ELSE rest

\* mutant: the gaps of the source are read off the target offsets
src_gaps_by_target(ms) == GapsFrom(ms, 1, 0, 2)

src_gaps(ms) == GapsFrom(ms, 1, 0, 1)

tgt_gaps(ms) == GapsFrom(ms, 1, 0, 2)

(***************************************************************************)
(* Exceptions.  NoError is the value of err while nothing has been raised. *)
(***************************************************************************)
NoError == [fn |-> "", type |-> "none", msg |-> ""]

Raise(fn, type, msg) == [fn |-> fn, type |-> type, msg |-> msg]

(***************************************************************************)
(* check_matches: the exception it raises, NoError when it returns         *)
(***************************************************************************)
\* mutant: the final coverage test is missing
check_matches_no_tail(len, ms, isStrict) ==
    IF len = 0 THEN NoError
    ELSE IF ms = <<>>
        THEN Raise("check_matches", "WeaveException", "no matches in non-empty target doc")
    ELSE IF ms[1][2] # 0
        THEN Raise("check_matches", "WeaveException", "matches do not start at beginning")
    ELSE IF tgt_gaps(ms) # <<>> /\ isStrict
        THEN Raise("check_matches", "WeaveException", "there are match gaps in the target document")
    ELSE NoError

\* mutant: the strict flag is ignored, target gaps are always fatal
check_matches_always_strict(len, ms, isStrict) ==
    IF len = 0 THEN NoError
    ELSE IF ms = <<>>
        THEN Raise("check_matches", "WeaveException", "no matches in non-empty target doc")
    ELSE IF ms[1][2] # 0
        THEN Raise("check_matches", "WeaveException", "matches do not start at beginning")
    ELSE IF tgt_gaps(ms) # <<>>
        THEN Raise("check_matches", "WeaveException", "there are match gaps in the target document")
    ELSE IF ms[Len(ms)][2] + ms[Len(ms)][3] # len
        THEN Raise("check_matches", "WeaveException", "matches do not cover the full target document")
    ELSE NoError

check_matches(len, ms, isStrict) ==
    IF len = 0 THEN NoError
    ELSE IF ms = <<>>
        THEN Raise("check_matches", "WeaveException", "no matches in non-empty target doc")
    ELSE IF ms[1][2] # 0
        THEN Raise("check_matches", "WeaveException", "matches do not start at beginning")
    ELSE IF tgt_gaps(ms) # <<>> /\ isStrict
        THEN Raise("check_matches", "WeaveException", "there are match gaps in the target document")
    ELSE IF ms[Len(ms)][2] + ms[Len(ms)][3] # len
        THEN Raise("check_matches", "WeaveException", "matches do not cover the full target document")
    ELSE NoError

(***************************************************************************)
(* shift_char / shift_span                                                 *)
(***************************************************************************)
EmptyDict == [x \in {} |-> 0]

DictSet(d, key, val) ==
    [x \in (DOMAIN d) \cup {key} |-> IF x = key THEN val ELSE d[x]]

MaxOf(S) == CHOOSE x \in S : \A y \in S : y <= x

MinOf(S) == CHOOSE x \in S : \A y \in S : x <= y

\* mutant: the offset of the smallest qualifying shift point
shift_offset_of_min(position, shifts) ==
    LET points == {x \in DOMAIN shifts : position >= x}
    IN  IF points # {} THEN shifts[MinOf(points)] ELSE 0

\* mutant: the comparison with the shift points is reversed
shift_offset_reversed(position, shifts) ==
    LET points == {x \in DOMAIN shifts : position <= x}
    IN  IF points # {} THEN shifts[MaxOf(points)] ELSE 0

\* the offset shift_char looks up for a position
shift_offset(position, shifts) ==
    LET points == {x \in DOMAIN shifts : position >= x}
    IN  IF points # {} THEN shifts[MaxOf(points)] ELSE 0

\* "assert offset >= 0" fails
shift_char_asserts(position, shifts) == shift_offset(position, shifts) < 0

\* the value shift_char returns when its assertion holds
shift_char(position, shifts) == position + shift_offset(position, shifts)

shift_span_asserts(span, shifts) ==
    \/ shift_char_asserts(span[1], shifts)
    \/ shift_char_asserts(span[2] - 1, shifts)

\* mutant: the 1 is not added back to the shifted end
shift_span_no_increment(span, shifts) ==
    Span(shift_char(span[1], shifts), shift_char(span[2] - 1, shifts))

shift_span(span, shifts) ==
    Span(shift_char(span[1], shifts), 1 + shift_char(span[2] - 1, shifts))

(***************************************************************************)
(* compute_updates                                                         *)
(*   An Updates value in progress is a record                              *)
(*   [shift, abs, abt, exp, err]: the four fields and the exception that   *)
(*   stopped the function, if any.                                         *)
(***************************************************************************)
\* mutant: only the first equivalent target annotation is pruned
PruneTgt_first_only(abt, tgt_equiv, k) ==
    IF tgt_equiv = <<>> THEN abt ELSE RemoveIfIn(abt, tgt_equiv[1])

\* lines 224-226: prune every equivalent target annotation from case 2
RECURSIVE PruneTgt(_, _, _)
PruneTgt(abt, tgt_equiv, k) ==
    IF k > Len(tgt_equiv) THEN abt
    ELSE PruneTgt(RemoveIfIn(abt, tgt_equiv[k]), tgt_equiv, k + 1)

\* mutant: the target spans are compared without shifting them
TgtEquiv_unshifted(src_anno, tgt_annos, tgt_to_src) ==
    LET same(tgt_anno) == tgt_anno.span = src_anno.span
    IN  SelectSeq(tgt_annos, same)

\* lines 219-221: target annotations of the block at the source span
TgtEquiv(src_anno, tgt_annos, tgt_to_src) ==
    LET same(tgt_anno) == ShiftBy(tgt_anno.span, tgt_to_src) = src_anno.span
    IN  SelectSeq(tgt_annos, same)

\* mutant: the source annotation is not pruned from expected_src_only
RECURSIVE BlockLoop_keeps_expected(_, _, _, _, _)
BlockLoop_keeps_expected(res, src_annos, tgt_annos, tgt_to_src, k) ==
    IF k > Len(src_annos) \/ res.err # NoError THEN res
    ELSE LET src_anno == src_annos[k]
             tgt_equiv == TgtEquiv(src_anno, tgt_annos, tgt_to_src)
         IN  BlockLoop_keeps_expected(
                    [res EXCEPT
                       !.abs = IF tgt_equiv = <<>>
                               THEN Append(res.abs, src_anno) ELSE res.abs,
                       !.abt = PruneTgt(res.abt, tgt_equiv, 1)],
                    src_annos, tgt_annos, tgt_to_src, k + 1)

\* lines 217-226: the loop over the source annotations of one block
RECURSIVE BlockLoop(_, _, _, _, _)
BlockLoop(res, src_annos, tgt_annos, tgt_to_src, k) ==
    IF k > Len(src_annos) \/ res.err # NoError THEN res
    ELSE LET src_anno == src_annos[k]
             tgt_equiv == TgtEquiv(src_anno, tgt_annos, tgt_to_src)
         IN  IF ~Contains(res.exp, src_anno)
             THEN [res EXCEPT !.err =
                      Raise("compute_updates", "ValueError", "list.remove(x): x not in list")]
             ELSE BlockLoop(
                    [res EXCEPT
                       !.exp = Remove(res.exp, src_anno),
                       !.abs = IF tgt_equiv = <<>>
                               THEN Append(res.abs, src_anno) ELSE res.abs,
                       !.abt = PruneTgt(res.abt, tgt_equiv, 1)],
                    src_annos, tgt_annos, tgt_to_src, k + 1)

\* mutant: the source annotations are selected by overlap with the block,
\* not by enclosure in it
MatchBlock_by_overlap(res, m, src_units, tgt_units) ==
    LET tgt_to_src == m[1] - m[2]
        res1 == [res EXCEPT !.shift = DictSet(res.shift, m[2], tgt_to_src)]
        overlaps(anno) == anno.span[1] < m[1] + m[3] /\ m[1] < anno.span[2]
        src_annos == SelectSeq(src_units, overlaps)
        tgt_annos == enclosed(Span(m[2], m[2] + m[3]), tgt_units)
    IN  BlockLoop(res1, src_annos, tgt_annos, tgt_to_src, 1)

\* lines 208-226: one iteration of the loop over the matches
MatchBlock(res, m, src_units, tgt_units) ==
    LET tgt_to_src == m[1] - m[2]
        res1 == [res EXCEPT !.shift = DictSet(res.shift, m[2], tgt_to_src)]
        src_annos == enclosed(Span(m[1], m[1] + m[3]), src_units)
        tgt_annos == enclosed(Span(m[2], m[2] + m[3]), tgt_units)
    IN  BlockLoop(res1, src_annos, tgt_annos, tgt_to_src, 1)

RECURSIVE MatchLoop(_, _, _, _, _)
MatchLoop(res, ms, src_units, tgt_units, k) ==
    IF k > Len(ms) \/ res.err # NoError THEN res
    ELSE MatchLoop(MatchBlock(res, ms[k], src_units, tgt_units),
                   ms, src_units, tgt_units, k + 1)

compute_updates(src_units, tgt_units, ms) ==
    MatchLoop([shift |-> EmptyDict, abs |-> <<>>, abt |-> tgt_units,
               exp |-> src_units, err |-> NoError],
              ms, src_units, tgt_units, 1)

(***************************************************************************)
(* stretch_match                                                           *)
(***************************************************************************)
RECURSIVE RemoveEachIfIn(_, _, _)
RemoveEachIfIn(list, elts, k) ==
    IF k > Len(elts) THEN list
    ELSE RemoveEachIfIn(RemoveIfIn(list, elts[k]), elts, k + 1)

\* Span ordering: by char_start, then char_end
SpanLess(x, y) == x[1] < y[1] \/ (x[1] = y[1] /\ x[2] < y[2])

\* sorted(annos, key=lambda x: x.span): stable insertion sort
RECURSIVE InsertBySpan(_, _)
InsertBySpan(sorted, anno) ==
    IF sorted = <<>> THEN <<anno>>
    ELSE IF SpanLess(anno.span, sorted[Len(sorted)].span)
         THEN Append(InsertBySpan(SubSeq(sorted, 1, Len(sorted) - 1), anno),
                     sorted[Len(sorted)])
         ELSE Append(sorted, anno)

RECURSIVE SortBySpan(_)
SortBySpan(annos) ==
    IF annos = <<>> THEN <<>>
    ELSE InsertBySpan(SortBySpan(SubSeq(annos, 1, Len(annos) - 1)),
                      annos[Len(annos)])

\* doc.text(span=Span(elt_cur.span.char_end, elt_nex.span.char_start)), joined
\* over consecutive elements and stripped, is the empty string: every
\* character strictly between consecutive elements is whitespace
GapIsBlank(seq, ws, textLen) ==
    \A k \in 1..(Len(seq) - 1) :
        \A p \in seq[k].span[2]..(seq[k + 1].span[1] - 1) :
            (0 <= p /\ p < textLen) => p \in ws

\* lines 267-269: the source candidates on exactly the (shifted) target span
src_equiv(span_tgt, cands_src) ==
    LET same(cand_src) == cand_src.span = span_tgt
    IN  SelectSeq(cands_src, same)

\* lines 300-301: the source candidates enclosed in the (shifted) target
\* span, sorted by span
src_equiv_seq(span_tgt, cands_src) == SortBySpan(enclosed(span_tgt, cands_src))

\* lines 303-314: the sequence covers the targeted span and has no gap or
\* just whitespaces
MergeFound(span_tgt, seq, ws) ==
    /\ seq # <<>>
    /\ seq[1].span[1] = span_tgt[1]
    /\ seq[Len(seq)].span[2] = span_tgt[2]
    /\ GapIsBlank(seq, ws.src, ws.srcLen)

\* lines 265-327: the loop over the target candidates
RECURSIVE LoopTgt(_, _, _, _, _)
LoopTgt(res, cands_src, cands_tgt, ws, k) ==
    IF k > Len(cands_tgt) \/ res.err # NoError THEN res
    ELSE
      LET cand_tgt == cands_tgt[k]
          span_tgt == shift_span(cand_tgt.span, res.shift)
          equiv == src_equiv(span_tgt, cands_src)
          seq == src_equiv_seq(span_tgt, cands_src)
          next ==
            IF equiv # <<>>
            THEN IF ~Contains(res.abt, cand_tgt)
                 THEN [res EXCEPT !.err =
                          Raise("stretch_match", "ValueError", "list.remove(x): x not in list")]
                 ELSE [res EXCEPT
                         !.abt = Remove(res.abt, cand_tgt),
                         !.abs = RemoveEachIfIn(res.abs, equiv, 1),
                         !.exp = RemoveEachIfIn(res.exp, equiv, 1)]
            ELSE IF MergeFound(span_tgt, seq, ws)
                 THEN [res EXCEPT
                         !.abt = RemoveIfIn(res.abt, cand_tgt),
                         !.abs = RemoveEachIfIn(res.abs, seq, 1),
                         !.exp = RemoveEachIfIn(res.exp, seq, 1)]
                 ELSE res
      IN  LoopTgt(next, cands_src, cands_tgt, ws, k + 1)

\* lines 330-365: the loop over the source candidates
RECURSIVE LoopSrc(_, _, _, _, _)
LoopSrc(res, cands_src, cands_tgt, ws, k) ==
    IF k > Len(cands_src) \/ res.err # NoError THEN res
    ELSE
      LET cand_src == cands_src[k]
          span_src == cand_src.span
          inside(cand_tgt) ==
              Encloses(span_src, shift_span(cand_tgt.span, res.shift))
          tgt_equiv_seq == SortBySpan(SelectSeq(cands_tgt, inside))
          next ==
            IF /\ tgt_equiv_seq # <<>>
               /\ tgt_equiv_seq[1].span[1] = span_src[1]
               /\ tgt_equiv_seq[Len(tgt_equiv_seq)].span[2] = span_src[2]
               /\ GapIsBlank(tgt_equiv_seq, ws.tgt, ws.tgtLen)
            THEN [res EXCEPT
                    !.abs = RemoveIfIn(res.abs, cand_src),
                    !.exp = RemoveIfIn(res.exp, cand_src),
                    !.abt = RemoveEachIfIn(res.abt, tgt_equiv_seq, 1)]
            ELSE res
      IN  LoopSrc(next, cands_src, cands_tgt, ws, k + 1)

\* res: [shift, abs, abt, exp, err]; ws: [src, srcLen, tgt, tgtLen], the
\* whitespace positions and the lengths of the two texts
stretch_match(res, ws, span_src, span_tgt, annos_src, annos_tgt) ==
    LET cands_src == enclosed(Span(span_src[1], span_src[2]), annos_src)
        cands_tgt == enclosed(Span(span_tgt[1], span_tgt[2]), annos_tgt)
    IN  IF \E k \in 1..Len(cands_tgt) :
               shift_span_asserts(cands_tgt[k].span, res.shift)
        THEN [res EXCEPT !.err = Raise("shift_char", "AssertionError", "offset >= 0")]
        ELSE LoopSrc(LoopTgt(res, cands_src, cands_tgt, ws, 1),
                     cands_src, cands_tgt, ws, 1)

(***************************************************************************)
(* compute_structural_updates                                              *)
(***************************************************************************)
\* lines 386-394: the loop over consecutive pairs (m, m1); st is
\* [map, offset_src, offset_tgt]
RECURSIVE StretchLoop(_, _, _)
StretchLoop(st, ms, k) ==
    IF k >= Len(ms) THEN st
    ELSE LET m == ms[k]
             m1 == ms[k + 1]
         IN  IF m[2] + m[3] # m1[2]
             THEN StretchLoop(
                    [map |-> DictSet(st.map,
                                     <<st.offset_tgt, m[2] + m[3]>>,
                                     <<st.offset_src, m[1] + m[3]>>),
                     offset_src |-> m[1],
                     offset_tgt |-> m[2]],
                    ms, k + 1)
             ELSE StretchLoop(st, ms, k + 1)

\* lines 383-398 for a list of at least two matches: after the loop, m is
\* the first element of the last pair, ms[Len(ms) - 1]
build_stretch_map(ms) ==
    LET st == StretchLoop([map |-> EmptyDict, offset_src |-> ms[1][1],
                           offset_tgt |-> ms[1][2]], ms, 1)
        m == ms[Len(ms) - 1]
        merged_span_src == <<st.offset_src, m[1] + m[3]>>
        merged_span_tgt == <<st.offset_tgt, m[2] + m[3]>>
    IN  DictSet(st.map, merged_span_src, merged_span_tgt)

\* what lines 384-398 raise
stretch_map_error(ms) ==
    IF ms = <<>> THEN Raise("compute_structural_updates", "IndexError", "list index out of range")
    ELSE IF Len(ms) = 1
         THEN Raise("compute_structural_updates", "UnboundLocalError",
                    "local variable 'm' referenced before assignment")
         ELSE NoError

\* x.type.lower() for the annotation types of the model
Lower(type) ==
    CASE type = "Segment" -> "segment"
      [] type = "Dialogue" -> "dialogue"
      [] type = "Offer" -> "offer"
      [] type = "Turn" -> "turn"
      [] OTHER -> type

\* y.lower() for y in UNITS (DIALOGUE_ACTS + RENAMES.keys())
UNITS == {"offer", "counteroffer", "accept", "refusal", "other",
          "strategic_comment"}

\* the orders in which iterating set(list) can yield its elements
Orders(S) ==
    {o \in [1..Cardinality(S) -> S] : \A x \in S : \E k \in DOMAIN o : o[k] = x}

\* mutant: the pools are not filtered by type
OfKind_any_type(annos, kinds) == annos

OfKind(annos, kinds) ==
    LET is(anno) == Lower(anno.type) \in kinds
    IN  SelectSeq(annos, is)

(***************************************************************************)
(* Inputs                                                                  *)
(***************************************************************************)
\* match triples inside texts of at most maxPos characters, size > 0
Triples(maxPos) ==
    {t \in (0..maxPos) \X (0..maxPos) \X (1..maxPos) :
        t[1] + t[3] <= maxPos /\ t[2] + t[3] <= maxPos}

\* m can follow the list ms: ascending and non-overlapping on both sides,
\* as a sequence matcher yields its blocks
Follows(ms, m) ==
    \/ ms = <<>>
    \/ LET last == ms[Len(ms)]
       IN  last[1] + last[3] <= m[1] /\ last[2] + last[3] <= m[2]

RECURSIVE MatchListsOfLen(_, _)
MatchListsOfLen(n, maxPos) ==
    IF n = 0 THEN {<<>>}
    ELSE UNION {{Append(ms, m) : m \in {t \in Triples(maxPos) : Follows(ms, t)}} :
                   ms \in MatchListsOfLen(n - 1, maxPos)}

MatchLists(maxPos) ==
    UNION {MatchListsOfLen(n, maxPos) : n \in 0..MaxMatches}

Spans(len) == {sp \in (0..len) \X (0..len) : sp[1] <= sp[2]}

Anno(doc, id, span, type) == [doc |-> doc, id |-> id, span |-> span, type |-> type]

\* the annotation types of the reconciliation runs: source annotations
\* are segments, target annotations segments or discourse-act units
SrcTypes == <<"Segment">>

TgtTypes == <<"Segment", "Offer">>

\* position of an annotation in the listing order of a collection
AnnoKey(anno, types) ==
    LET ty == CHOOSE k \in 1..Len(types) : types[k] = anno.type
    IN  (anno.span[1] * (MaxPos + 2) + anno.span[2]) * (Len(types) + 1) + ty

\* collections of n annotations of one document over a text of len
\* characters, ids 1..n, listed by position
RECURSIVE UnitListsOfLen(_, _, _, _)
UnitListsOfLen(n, doc, len, types) ==
    IF n = 0 THEN {<<>>}
    ELSE UNION {{Append(us, Anno(doc, n, sp, types[ty])) :
                    sp \in Spans(len), ty \in 1..Len(types)} :
                   us \in UnitListsOfLen(n - 1, doc, len, types)}

UnitLists(doc, len, types) ==
    {us \in UNION {UnitListsOfLen(n, doc, len, types) : n \in 0..MaxUnits} :
        \A k \in 1..(Len(us) - 1) :
            AnnoKey(us[k], types) <= AnnoKey(us[k + 1], types)}

\* the source text has one character more than the longest target text
SrcLen == MaxPos + 1

\* the pairs (src_doc.units, tgt_doc.units), by length of the target text
DocPairs ==
    [len \in 0..MaxPos |->
        {docs \in UnitLists("src", MaxPos, SrcTypes) \X UnitLists("tgt", len, TgtTypes) :
            Len(docs[1]) + Len(docs[2]) <= MaxTotalUnits}]

\* the whitespace of the source text: its first character and its last two
\* are not blank
WhitespaceSets ==
    {ws \in SUBSET (1..(MaxPos - 2)) : Cardinality(ws) <= MaxWS}

\* matched characters are equal, so a matched target character is
\* whitespace exactly when its source character is; target characters
\* outside every match are taken to be non-blank
TgtWhitespace(ms, ws) ==
    {p \in 0..MaxPos :
        \E k \in 1..Len(ms) :
            /\ ms[k][2] <= p /\ p < ms[k][2] + ms[k][3]
            /\ (p - ms[k][2] + ms[k][1]) \in ws}

\* the match lists of the reconciliation runs lie inside the target text
WeaveInputs ==
    {in \in MatchLists(MaxPos) \X (0..MaxPos) :
        \A k \in 1..Len(in[1]) : in[1][k][2] + in[1][k][3] <= in[2]}

(***************************************************************************)
(* State machine                                                           *)
(***************************************************************************)
Idle == [kind |-> "none"]

NoQuery == [fn |-> "none"]

InitCommon ==
    /\ strict \in BOOLEAN
    /\ srcUnits = <<>>
    /\ tgtUnits = <<>>
    /\ srcWS = {}
    /\ pc = "start"
    /\ err = NoError
    /\ shift_if_ge = EmptyDict
    /\ abnormal_src_only = <<>>
    /\ abnormal_tgt_only = <<>>
    /\ expected_src_only = <<>>
    /\ pools = <<>>
    /\ stretch_map = {}
    /\ call = Idle
    /\ query = NoQuery

Init ==
    /\ \E in \in WeaveInputs : matches = in[1] /\ tgtLen = in[2]
    /\ InitCommon

\* check_matches(tgt_doc, matches, strict)
CheckMatches ==
    /\ pc = "start"
    /\ err' = check_matches(tgtLen, matches, strict)
    /\ pc' = IF err' = NoError THEN "checked" ELSE "raised"
    /\ UNCHANGED <<matches, tgtLen, strict, srcUnits, tgtUnits, srcWS,
                   shift_if_ge, abnormal_src_only, abnormal_tgt_only,
                   expected_src_only, pools, stretch_map, call, query>>

\* updates = compute_updates(src_doc, tgt_doc, matches)
ComputeUpdates(src_units, tgt_units) ==
    /\ pc = "checked"
    /\ LET res == compute_updates(src_units, tgt_units, matches)
       IN  /\ srcUnits' = src_units
           /\ tgtUnits' = tgt_units
           /\ shift_if_ge' = res.shift
           /\ abnormal_src_only' = res.abs
           /\ abnormal_tgt_only' = res.abt
           /\ expected_src_only' = res.exp
           /\ err' = res.err
           /\ pc' = IF res.err = NoError THEN "computed" ELSE "raised"
    /\ UNCHANGED <<matches, tgtLen, strict, srcWS, pools, stretch_map, call,
                   query>>

\* the documents handed to compute_updates
ReadDocuments ==
    /\ pc = "checked"
    /\ \E docs \in DocPairs[tgtLen] : ComputeUpdates(docs[1], docs[2])

\* the Updates in the state, as the record the operators work on
Updates ==
    [shift |-> shift_if_ge, abs |-> abnormal_src_only,
     abt |-> abnormal_tgt_only, exp |-> expected_src_only, err |-> NoError]

SetUpdates(res) ==
    /\ abnormal_src_only' = res.abs
    /\ abnormal_tgt_only' = res.abt
    /\ expected_src_only' = res.exp
    /\ err' = res.err

\* compute_structural_updates, lines 383-415: the stretch map and the pools
StructuralBegin ==
    /\ pc = "computed"
    /\ err' = stretch_map_error(matches)
    /\ IF err' # NoError
       THEN /\ pc' = "raised"
            /\ UNCHANGED <<srcWS, pools, stretch_map>>
       ELSE /\ pc' = "stretching"
            /\ srcWS' \in WhitespaceSets
            /\ LET map == build_stretch_map(matches)
               IN  stretch_map' = {<<key, map[key]>> : key \in DOMAIN map}
            /\ \E src_order \in Orders(Range(abnormal_src_only \o expected_src_only)),
                  tgt_order \in Orders(Range(abnormal_tgt_only)) :
                 pools' = [src_dlgs |-> OfKind(src_order, {"dialogue"}),
                           src_segs |-> OfKind(src_order, {"segment"}),
                           tgt_dlgs |-> OfKind(tgt_order, {"dialogue"}),
                           tgt_segs |-> OfKind(tgt_order, {"segment"}),
                           tgt_units |-> OfKind(tgt_order, UNITS)]
    /\ UNCHANGED <<matches, tgtLen, strict, srcUnits, tgtUnits, shift_if_ge,
                   abnormal_src_only, abnormal_tgt_only, expected_src_only,
                   call, query>>

Texts ==
    [src |-> srcWS, srcLen |-> SrcLen,
     tgt |-> TgtWhitespace(matches, srcWS), tgtLen |-> tgtLen]

\* one stretch_match call of the loop body, lines 417-432; entry is the
\* (key, value) pair that stretch_map.items() yields as (span_src, span_tgt)
StretchCall(entry, annos_src, annos_tgt, nextKind) ==
    LET res == stretch_match(Updates, Texts, entry[1], entry[2],
                             annos_src, annos_tgt)
    IN  /\ SetUpdates(res)
        /\ IF res.err # NoError
           THEN pc' = "raised" /\ call' = Idle
           ELSE IF nextKind = "none"
                THEN /\ call' = Idle
                     /\ pc' = IF stretch_map = {} THEN "done" ELSE "stretching"
                ELSE /\ call' = [kind |-> nextKind, entry |-> entry]
                     /\ pc' = "stretching"

\* dialogues: the first call on the next entry of stretch_map.items()
StretchDialogues ==
    /\ pc = "stretching"
    /\ call = Idle
    /\ \E entry \in stretch_map :
         /\ stretch_map' = stretch_map \ {entry}
         /\ StretchCall(entry, pools.src_dlgs, pools.tgt_dlgs, "segments")
    /\ UNCHANGED <<matches, tgtLen, strict, srcUnits, tgtUnits, srcWS,
                   shift_if_ge, pools, query>>

\* mutant: the call on the segments drops from the pools the annotations it
\* has cleared from the lists
StretchSegments_prunes_pools ==
    /\ pc = "stretching"
    /\ call # Idle /\ call.kind = "segments"
    /\ StretchCall(call.entry, pools.src_segs, pools.tgt_segs, "units")
    /\ LET listed(anno) ==
               \/ Contains(abnormal_src_only', anno)
               \/ Contains(expected_src_only', anno)
               \/ Contains(abnormal_tgt_only', anno)
       IN  pools' = [pool \in DOMAIN pools |-> SelectSeq(pools[pool], listed)]
    /\ UNCHANGED <<matches, tgtLen, strict, srcUnits, tgtUnits, srcWS,
                   shift_if_ge, stretch_map, query>>

\* EDUs (segments)
StretchSegments ==
    /\ pc = "stretching"
    /\ call # Idle /\ call.kind = "segments"
    /\ StretchCall(call.entry, pools.src_segs, pools.tgt_segs, "units")
    /\ UNCHANGED <<matches, tgtLen, strict, srcUnits, tgtUnits, srcWS,
                   shift_if_ge, pools, stretch_map, query>>

\* units / discourse acts
StretchUnits ==
    /\ pc = "stretching"
    /\ call # Idle /\ call.kind = "units"
    /\ StretchCall(call.entry, pools.src_segs, pools.tgt_units, "none")
    /\ UNCHANGED <<matches, tgtLen, strict, srcUnits, tgtUnits, srcWS,
                   shift_if_ge, pools, stretch_map, query>>

Next ==
    \/ CheckMatches
    \/ ReadDocuments
    \/ StructuralBegin
    \/ StretchDialogues
    \/ StretchSegments
    \/ StretchUnits

Spec == Init /\ [][Next]_vars

(***************************************************************************)
(* The shift model on its own: check_matches, compute_updates on two       *)
(* documents without annotations, then one call of shift_char or           *)
(* shift_span on the Updates returned.                                     *)
(***************************************************************************)
\* the match list lies inside the target text
InsideTarget(ms, len) == \A k \in 1..Len(ms) : ms[k][2] + ms[k][3] <= len

\* match lists a sequence matcher can yield for the target text, then
\* match lists that reach beyond it (check_matches is there to tell)
InitShift ==
    /\ \/ /\ tgtLen \in 0..MaxShiftPos
          /\ matches \in MatchLists(MaxShiftPos)
          /\ InsideTarget(matches, tgtLen)
       \/ /\ tgtLen \in 0..MaxShiftPos
          /\ matches \in MatchLists(MaxShiftPos)
          /\ ~InsideTarget(matches, tgtLen)
    /\ InitCommon

BuildShiftModel == ComputeUpdates(<<>>, <<>>)

\* shift_char(position, updates)
ShiftChar(position) ==
    /\ pc = "computed"
    /\ query' = [fn |-> "shift_char", arg |-> position,
                 raised |-> shift_char_asserts(position, shift_if_ge),
                 result |-> IF shift_char_asserts(position, shift_if_ge)
                            THEN "AssertionError"
                            ELSE shift_char(position, shift_if_ge)]
    /\ pc' = "shifted"
    /\ UNCHANGED <<matches, tgtLen, strict, srcUnits, tgtUnits, srcWS, err,
                   shift_if_ge, abnormal_src_only, abnormal_tgt_only,
                   expected_src_only, pools, stretch_map, call>>

\* shift_span(span, updates)
ShiftSpan(span) ==
    /\ pc = "computed"
    /\ query' = [fn |-> "shift_span", arg |-> span,
                 raised |-> shift_span_asserts(span, shift_if_ge),
                 result |-> IF shift_span_asserts(span, shift_if_ge)
                            THEN "AssertionError"
                            ELSE shift_span(span, shift_if_ge)]
    /\ pc' = "shifted"
    /\ UNCHANGED <<matches, tgtLen, strict, srcUnits, tgtUnits, srcWS, err,
                   shift_if_ge, abnormal_src_only, abnormal_tgt_only,
                   expected_src_only, pools, stretch_map, call>>

\* the positions and spans queried
QueryPositions == (-1)..MaxShiftPos

NextShift ==
    \/ CheckMatches
    \/ BuildShiftModel
    \/ \E position \in QueryPositions : ShiftChar(position)
    \/ \E span \in Spans(MaxShiftPos) : ShiftSpan(span)

SpecShift == InitShift /\ [][NextShift]_vars

(***************************************************************************)
(* The gap listings on their own: check_matches, then one call of          *)
(* src_gaps or tgt_gaps on the match list it has accepted.                 *)
(***************************************************************************)
\* src_gaps(matches)
SrcGaps ==
    /\ pc = "checked"
    /\ query' = [fn |-> "src_gaps", arg |-> matches, raised |-> FALSE,
                 result |-> src_gaps(matches)]
    /\ pc' = "listed"
    /\ UNCHANGED <<matches, tgtLen, strict, srcUnits, tgtUnits, srcWS, err,
                   shift_if_ge, abnormal_src_only, abnormal_tgt_only,
                   expected_src_only, pools, stretch_map, call>>

\* tgt_gaps(matches)
TgtGaps ==
    /\ pc = "checked"
    /\ query' = [fn |-> "tgt_gaps", arg |-> matches, raised |-> FALSE,
                 result |-> tgt_gaps(matches)]
    /\ pc' = "listed"
    /\ UNCHANGED <<matches, tgtLen, strict, srcUnits, tgtUnits, srcWS, err,
                   shift_if_ge, abnormal_src_only, abnormal_tgt_only,
                   expected_src_only, pools, stretch_map, call>>

NextGaps ==
    \/ CheckMatches
    \/ SrcGaps
    \/ TgtGaps

SpecGaps == InitShift /\ [][NextGaps]_vars

(***************************************************************************)
(* The merge runs: the same pipeline on longer texts.  The target text has *)
(* up to SrcLen characters, the match list tiles it with at least two      *)
(* matches, the source has at most MaxUnits segments and the target at     *)
(* most one, all on non-empty spans.                                       *)
(***************************************************************************)
MergeInputs ==
    {in \in MatchLists(SrcLen) \X (1..SrcLen) :
        Len(in[1]) >= 2 /\ check_matches(in[2], in[1], TRUE) = NoError}

NonEmpty(units) == \A k \in 1..Len(units) : units[k].span[1] < units[k].span[2]

MergeDocPairs ==
    [len \in 1..SrcLen |->
        {docs \in UnitLists("src", SrcLen, SrcTypes) \X UnitLists("tgt", len, SrcTypes) :
            /\ Len(docs[2]) <= 1
            /\ NonEmpty(docs[1]) /\ NonEmpty(docs[2])}]

InitMerge ==
    /\ \E in \in MergeInputs : matches = in[1] /\ tgtLen = in[2]
    /\ InitCommon

ReadMergeDocuments ==
    /\ pc = "checked"
    /\ \E docs \in MergeDocPairs[tgtLen] : ComputeUpdates(docs[1], docs[2])

NextMerge ==
    \/ CheckMatches
    \/ ReadMergeDocuments
    \/ StructuralBegin
    \/ StretchDialogues
    \/ StretchSegments
    \/ StretchUnits

SpecMerge == InitMerge /\ [][NextMerge]_vars

(***************************************************************************)
(* The runs on mixed annotation kinds: the same pipeline on documents that *)
(* hold dialogues, segments, discourse-act units and turns.  The match     *)
(* list tiles a target text of MaxPos characters with at least two         *)
(* matches; the annotations lie on non-empty spans of its first            *)
(* MaxPos - 1 characters.                                                  *)
(***************************************************************************)
SrcKinds == <<"Dialogue", "Segment", "Turn">>

TgtKinds == <<"Dialogue", "Segment", "Offer", "Turn">>

KindInputs ==
    {ms \in MatchLists(MaxPos) :
        Len(ms) >= 2 /\ check_matches(MaxPos, ms, TRUE) = NoError}

KindDocPairs ==
    {docs \in UnitLists("src", MaxPos - 1, SrcKinds) \X UnitLists("tgt", MaxPos - 1, TgtKinds) :
        /\ Len(docs[1]) + Len(docs[2]) <= MaxTotalUnits
        /\ NonEmpty(docs[1]) /\ NonEmpty(docs[2])}

InitKinds ==
    /\ matches \in KindInputs
    /\ tgtLen = MaxPos
    /\ InitCommon

ReadKindDocuments ==
    /\ pc = "checked"
    /\ \E docs \in KindDocPairs : ComputeUpdates(docs[1], docs[2])

NextKinds ==
    \/ CheckMatches
    \/ ReadKindDocuments
    \/ StructuralBegin
    \/ StretchDialogues
    \/ StretchSegments
    \/ StretchUnits

SpecKinds == InitKinds /\ [][NextKinds]_vars

(***************************************************************************)
(* Vocabulary of the properties                                            *)
(***************************************************************************)
\* check_matches has run and returned
CheckAccepted == pc # "start" /\ err.type # "WeaveException"

\* compute_updates has returned an Updates
UpdatesBuilt ==
    \/ pc \in {"computed", "shifted", "stretching", "done"}
    \/ /\ pc = "raised"
       /\ err.fn \in {"compute_structural_updates", "stretch_match", "shift_char"}

\* the match list covers the non-empty target text fully and contiguously
Contiguous ==
    \A k \in 1..(Len(matches) - 1) :
        matches[k][2] + matches[k][3] = matches[k + 1][2]

Tiles ==
    /\ tgtLen > 0
    /\ matches # <<>>
    /\ matches[1][2] = 0
    /\ Contiguous
    /\ matches[Len(matches)][2] + matches[Len(matches)][3] = tgtLen

\* position p lies in the target range of match m
InTarget(p, m) == m[2] <= p /\ p < m[2] + m[3]

MatchSet == Range(matches)

(***************************************************************************)
(* C3: for an Updates built from a match list that tiles the target, the   *)
(* shift model holds exactly one (b, a - b) pair per match, shift_char     *)
(* maps every target position of a match (a, b, size) to a + (p - b), and  *)
(* a position below every threshold is returned unchanged.                 *)
(***************************************************************************)
C3_ShiftCharFollowsMatch ==
    (UpdatesBuilt /\ Tiles) =>
        /\ DOMAIN shift_if_ge = {m[2] : m \in MatchSet}
        /\ \A m \in MatchSet : shift_if_ge[m[2]] = m[1] - m[2]
        /\ \A m \in MatchSet : \A p \in QueryPositions :
              InTarget(p, m) =>
                  /\ ~shift_char_asserts(p, shift_if_ge)
                  /\ shift_char(p, shift_if_ge) = m[1] + (p - m[2])
        /\ \A p \in QueryPositions :
              (\A x \in DOMAIN shift_if_ge : p < x) =>
                  shift_char(p, shift_if_ge) = p
        /\ query.fn = "shift_char" =>
              /\ ~query.raised
              /\ \A m \in MatchSet :
                    InTarget(query.arg, m) =>
                        query.result = m[1] + (query.arg - m[2])

\* shift_char was called on a position of a later match that the source
\* has moved to the right
C3_Witness ==
    /\ Tiles
    /\ query.fn = "shift_char"
    /\ \E k \in 2..Len(matches) :
          /\ InTarget(query.arg, matches[k])
          /\ matches[k][1] > matches[k][2]
          /\ matches[k][1] - matches[k][2] > matches[1][1] - matches[1][2]
          /\ query.result = query.arg + (matches[k][1] - matches[k][2])

(***************************************************************************)
(* C4: for every match list check_matches accepts, strict or lenient,      *)
(* every offset recorded in shift_if_ge is non-negative and the assertion  *)
(* of shift_char holds for every queried position.                         *)
(***************************************************************************)
C4_OffsetsNonNegative ==
    UpdatesBuilt =>
        /\ \A x \in DOMAIN shift_if_ge : shift_if_ge[x] >= 0
        /\ query.fn # "none" => ~query.raised

(***************************************************************************)
(* C5: shift_char is monotonic non-decreasing in position.                 *)
(***************************************************************************)
Monotonic ==
    \A p, q \in QueryPositions :
        (/\ p <= q
         /\ ~shift_char_asserts(p, shift_if_ge)
         /\ ~shift_char_asserts(q, shift_if_ge)) =>
            shift_char(p, shift_if_ge) <= shift_char(q, shift_if_ge)

\* C5 as stated: for every Updates produced by compute_updates
C5_Original == UpdatesBuilt => Monotonic

\* C5 amended: for an Updates produced from a match list that covers a
\* non-empty target text fully and contiguously, shift_char returns for
\* every position and is monotonic non-decreasing
C5_MonotonicWhenTiling ==
    (UpdatesBuilt /\ Tiles) =>
        /\ \A p \in QueryPositions : ~shift_char_asserts(p, shift_if_ge)
        /\ Monotonic

\* shift_char was called at or after a threshold with a positive offset of
\* a tiling match list with several thresholds
C5_Witness ==
    /\ Tiles
    /\ Len(matches) >= 2
    /\ query.fn = "shift_char"
    /\ \E x \in DOMAIN shift_if_ge :
          x > 0 /\ shift_if_ge[x] > 0 /\ query.arg >= x /\ query.result > query.arg

(***************************************************************************)
(* C6: shift_span never produces end <= start for a span with end > start. *)
(***************************************************************************)
SpanStaysNonEmpty ==
    /\ \A span \in Spans(MaxShiftPos) :
          (span[2] > span[1] /\ ~shift_span_asserts(span, shift_if_ge)) =>
              shift_span(span, shift_if_ge)[2] > shift_span(span, shift_if_ge)[1]
    /\ (query.fn = "shift_span" /\ ~query.raised /\ query.arg[2] > query.arg[1]) =>
          query.result[2] > query.result[1]

\* C6 as stated: for every Updates produced by compute_updates
C6_Original == UpdatesBuilt => SpanStaysNonEmpty

\* C6 amended: for an Updates produced from a match list that covers a
\* non-empty target text fully and contiguously, shift_span returns for
\* every span with end > start a span whose end is greater than its start
C6_NonEmptyWhenTiling ==
    (UpdatesBuilt /\ Tiles) =>
        /\ \A span \in Spans(MaxShiftPos) :
              span[2] > span[1] => ~shift_span_asserts(span, shift_if_ge)
        /\ SpanStaysNonEmpty

\* shift_span was called on a span that crosses a threshold where the
\* offset grows
C6_Witness ==
    /\ Tiles
    /\ query.fn = "shift_span"
    /\ query.arg[2] > query.arg[1]
    /\ \E x \in DOMAIN shift_if_ge :
          /\ query.arg[1] < x /\ x < query.arg[2]
          /\ shift_if_ge[x] > 0
    /\ query.result[2] - query.result[1] > query.arg[2] - query.arg[1]

(***************************************************************************)
(* C7: in strict mode check_matches returns if and only if the target      *)
(* text is empty or the match list is non-empty, starts at target offset   *)
(* 0, is contiguous on the target side and ends at the length of the       *)
(* target text; otherwise it raises a WeaveException.                      *)
(***************************************************************************)
C7_StrictAcceptsIffTiling ==
    (pc # "start" /\ strict) =>
        /\ CheckAccepted <=> (tgtLen = 0 \/ Tiles)
        /\ ~CheckAccepted =>
              /\ pc = "raised"
              /\ err.fn = "check_matches"
              /\ \/ matches = <<>>
                 \/ matches[1][2] # 0
                 \/ ~Contiguous
                 \/ matches[Len(matches)][2] + matches[Len(matches)][3] # tgtLen

\* strict mode has accepted a list of several matches on a non-empty target
C7_Witness ==
    /\ strict
    /\ pc = "checked"
    /\ tgtLen > 0
    /\ Len(matches) >= 2

(***************************************************************************)
(* C8: a match list with an internal target gap that starts at target      *)
(* offset 0 and ends at the end of the target text is rejected in strict   *)
(* mode and accepted in lenient mode; lenient mode raises exactly when the *)
(* target is non-empty and the list is empty, starts off 0 or leaves the   *)
(* tail uncovered (the conditions that make strict mode raise besides a    *)
(* target gap).                                                            *)
(***************************************************************************)
GapOnly ==
    /\ tgtLen > 0
    /\ matches # <<>>
    /\ matches[1][2] = 0
    /\ matches[Len(matches)][2] + matches[Len(matches)][3] = tgtLen
    /\ ~Contiguous

C8_LenientToleratesGaps ==
    pc # "start" =>
        /\ (GapOnly /\ strict) =>
              (~CheckAccepted /\ err.msg = "there are match gaps in the target document")
        /\ (GapOnly /\ ~strict) => CheckAccepted
        /\ ~strict =>
              (~CheckAccepted <=>
                  /\ tgtLen > 0
                  /\ \/ matches = <<>>
                     \/ matches[1][2] # 0
                     \/ matches[Len(matches)][2] + matches[Len(matches)][3] # tgtLen)

\* lenient mode has accepted a list with an internal target gap
C8_Witness ==
    /\ ~strict
    /\ pc = "checked"
    /\ GapOnly

(***************************************************************************)
(* Vocabulary of the reconciliation properties                             *)
(***************************************************************************)
NoDuplicates(list) ==
    \A j, k \in 1..Len(list) : list[j] = list[k] => j = k

\* sub is what is left of list after removing some of its entries
RECURSIVE IsSubList(_, _)
IsSubList(sub, list) ==
    IF sub = <<>> THEN TRUE
    ELSE IF list = <<>> THEN FALSE
    ELSE IF sub[1] = list[1] THEN IsSubList(Tail(sub), Tail(list))
    ELSE IsSubList(sub, Tail(list))

SrcBlock(m) == Span(m[1], m[1] + m[3])

TgtBlock(m) == Span(m[2], m[2] + m[3])

\* the annotation lies in the source range of some match block
InBlock(anno) == \E m \in MatchSet : Encloses(SrcBlock(m), anno.span)

\* the annotation lies in a gap listed by src_gaps
InGap(anno) ==
    \E gap \in Range(src_gaps(matches)) :
        Encloses(Span(gap[1], gap[1] + gap[2]), anno.span)

\* compute_updates has returned and nothing has run since
Computed == pc = "computed"

(***************************************************************************)
(* C1: the three lists hold no annotation twice, no annotation is in two   *)
(* of them, source annotations are only in the two source lists and        *)
(* target annotations only in abnormal_tgt_only; and once compute_updates  *)
(* has returned, every step only removes entries from the lists.           *)
(***************************************************************************)
ListsExclusive ==
    /\ NoDuplicates(abnormal_src_only)
    /\ NoDuplicates(abnormal_tgt_only)
    /\ NoDuplicates(expected_src_only)
    /\ Range(abnormal_src_only) \cap Range(expected_src_only) = {}
    /\ Range(abnormal_src_only) \cap Range(abnormal_tgt_only) = {}
    /\ Range(expected_src_only) \cap Range(abnormal_tgt_only) = {}
    /\ Range(abnormal_src_only) \cup Range(expected_src_only) \subseteq Range(srcUnits)
    /\ Range(abnormal_tgt_only) \subseteq Range(tgtUnits)
    /\ \A anno \in Range(srcUnits) : anno.doc = "src"
    /\ \A anno \in Range(tgtUnits) : anno.doc = "tgt"

OnlyRemoves ==
    UpdatesBuilt =>
        /\ IsSubList(abnormal_src_only', abnormal_src_only)
        /\ IsSubList(abnormal_tgt_only', abnormal_tgt_only)
        /\ IsSubList(expected_src_only', expected_src_only)
        /\ shift_if_ge' = shift_if_ge

C1_ListsExclusiveAndShrinking == [](ListsExclusive) /\ [][OnlyRemoves]_vars

\* in strict mode the structural pass has cleared a target annotation and
\* source annotations that compute_updates had left in the lists
C1_Witness ==
    /\ strict
    /\ pc = "done"
    /\ \E tgt_anno \in Range(tgtUnits), src_anno \in Range(srcUnits) :
          /\ tgt_anno \in Range(pools.tgt_segs) \cup Range(pools.tgt_units)
          /\ ~Contains(abnormal_tgt_only, tgt_anno)
          /\ src_anno \in Range(pools.src_segs)
          /\ ~Contains(abnormal_src_only, src_anno)
          /\ ~Contains(expected_src_only, src_anno)
    /\ abnormal_src_only \o expected_src_only # <<>>

(***************************************************************************)
(* C2: for every match list that covers a non-empty target text fully and  *)
(* contiguously and any annotation collections, compute_updates followed   *)
(* by compute_structural_updates returns without raising.                  *)
(***************************************************************************)
C2_NeverRaises == Tiles => err = NoError

HasSourceEquivalent(tgt_anno) ==
    \E m \in MatchSet : \E src_anno \in Range(srcUnits) :
        /\ Encloses(TgtBlock(m), tgt_anno.span)
        /\ Encloses(SrcBlock(m), src_anno.span)
        /\ src_anno.span = ShiftBy(tgt_anno.span, m[1] - m[2])

C10_TgtAbsentIffEquivalent ==
    Computed =>
        \A tgt_anno \in Range(tgtUnits) :
            ~Contains(abnormal_tgt_only, tgt_anno) <=> HasSourceEquivalent(tgt_anno)

\* two target annotations on one span were both cleared by one source
\* annotation of a block that the source has moved
C10_Witness ==
    /\ Computed
    /\ \E t1, t2 \in Range(tgtUnits) :
          /\ t1 # t2
          /\ t1.span = t2.span
          /\ t1.span[1] < t1.span[2]
          /\ ~Contains(abnormal_tgt_only, t1)
          /\ ~Contains(abnormal_tgt_only, t2)
          /\ \E m \in MatchSet : m[1] > m[2] /\ Encloses(TgtBlock(m), t1.span)

(***************************************************************************)
(* C11: after compute_updates a source annotation is in abnormal_src_only  *)
(* if and only if some match block encloses it and no target annotation    *)
(* enclosed in the block's target range has, shifted by a - b, exactly the *)
(* source annotation's span; it is then listed exactly once.               *)
(***************************************************************************)
LacksTargetCounterpart(src_anno) ==
    \E m \in MatchSet :
        /\ Encloses(SrcBlock(m), src_anno.span)
        /\ ~\E tgt_anno \in Range(tgtUnits) :
              /\ Encloses(TgtBlock(m), tgt_anno.span)
              /\ ShiftBy(tgt_anno.span, m[1] - m[2]) = src_anno.span

Occurrences(list, x) == Cardinality({k \in 1..Len(list) : list[k] = x})

C11_SrcAbnormalIffNoCounterpart ==
    Computed =>
        \A src_anno \in Range(srcUnits) :
            /\ Contains(abnormal_src_only, src_anno) <=> LacksTargetCounterpart(src_anno)
            /\ Occurrences(abnormal_src_only, src_anno) <= 1

\* in a block that the source has moved, one source annotation has a target
\* counterpart and another one has none
C11_Witness ==
    /\ Computed
    /\ \E m \in MatchSet : \E s1, s2 \in Range(srcUnits) :
          /\ m[1] > m[2]
          /\ s1 # s2
          /\ Encloses(SrcBlock(m), s1.span) /\ s1.span[1] < s1.span[2]
          /\ Encloses(SrcBlock(m), s2.span)
          /\ Contains(abnormal_src_only, s1)
          /\ ~Contains(abnormal_src_only, s2)
          /\ tgtUnits # <<>>

(***************************************************************************)
(* C12: the stretches of compute_structural_updates.                       *)
(***************************************************************************)
\* matches i..j of the list form a maximal run contiguous on the target
IsMaximalRun(i, j) ==
    /\ i <= j
    /\ \A k \in i..(j - 1) : matches[k][2] + matches[k][3] = matches[k + 1][2]
    /\ i = 1 \/ matches[i - 1][2] + matches[i - 1][3] # matches[i][2]
    /\ j = Len(matches) \/ matches[j][2] + matches[j][3] # matches[j + 1][2]

\* the (span_src, span_tgt) pairs of the maximal runs
MaximalRuns ==
    LET runs == {r \in (1..Len(matches)) \X (1..Len(matches)) : IsMaximalRun(r[1], r[2])}
    IN  {<<  <<matches[r[1]][1], matches[r[2]][1] + matches[r[2]][3]>>,
             <<matches[r[1]][2], matches[r[2]][2] + matches[r[2]][3]>>  >> : r \in runs}

\* C12: when compute_structural_updates has built its stretch map, the
\* (span_src, span_tgt) pairs it iterates over are exactly the source and
\* target spans of the maximal runs of target-contiguous matches, and every
\* pair handed to stretch_match is one of them
C12_StretchesAreMaximalRuns ==
    /\ [][(pc = "computed" /\ pc' = "stretching") => stretch_map' = MaximalRuns]_vars
    /\ [](call # Idle => call.entry \in MaximalRuns)

(***************************************************************************)
(* Vocabulary of the structural pass                                       *)
(***************************************************************************)
\* compute_structural_updates has returned
StructuralDone == pc = "done"

\* a target span moved into source coordinates
Shifted(span) == shift_span(span, shift_if_ge)

\* the positions of a span
Positions(span) == span[1]..(span[2] - 1)

\* the source annotation and the target annotations lie in one stretch
InOneStretch(src_annos, tgt_annos) ==
    \E run \in MaximalRuns :
        /\ \A s \in src_annos : Encloses(run[1], s.span)
        /\ \A t \in tgt_annos : Encloses(run[2], t.span)

\* the pools of unmatched annotations of the same structural kind
SameKindPools ==
    {<<pools.src_dlgs, pools.tgt_dlgs>>, <<pools.src_segs, pools.tgt_segs>>}

(***************************************************************************)
(* C13: one-to-many (split) detection.                                     *)
(***************************************************************************)
\* the shifted spans of the target annotations Ts tile the span of S: they
\* are enclosed in it, one starts at its start, one ends at its end, and
\* the source text they leave uncovered is whitespace
SplitTiles(S, Ts) ==
    /\ Ts # {}
    /\ \A T \in Ts : Encloses(S.span, Shifted(T.span))
    /\ \E T \in Ts : Shifted(T.span)[1] = S.span[1]
    /\ \E T \in Ts : Shifted(T.span)[2] = S.span[2]
    /\ \A p \in Positions(S.span) :
          (\A T \in Ts : p \notin Positions(Shifted(T.span))) => p \in srcWS

\* C13: once compute_structural_updates has returned, every unmatched
\* source annotation S of a structural kind whose span is tiled, up to
\* whitespace, by the shifted spans of unmatched target annotations of the
\* same kind lying in the same stretch is in neither source list, and none
\* of these target annotations is in abnormal_tgt_only
C13_SplitDetected ==
    StructuralDone =>
        \A kind \in SameKindPools :
            \A S \in Range(kind[1]) : \A Ts \in SUBSET Range(kind[2]) :
                (InOneStretch({S}, Ts) /\ SplitTiles(S, Ts)) =>
                    /\ ~Contains(abnormal_src_only, S)
                    /\ ~Contains(expected_src_only, S)
                    /\ \A T \in Ts : ~Contains(abnormal_tgt_only, T)

(***************************************************************************)
(* C14: many-to-one (merge) detection is sound.                            *)
(***************************************************************************)
\* the stretch_map entry and the two pools of the stretch_match call that
\* the step makes, when the step is one
CallEntry ==
    IF call = Idle THEN CHOOSE entry \in stretch_map : entry \notin stretch_map'
    ELSE call.entry

CallSrcPool == IF call = Idle THEN pools.src_dlgs ELSE pools.src_segs

CallTgtPool ==
    IF call = Idle THEN pools.tgt_dlgs
    ELSE IF call.kind = "segments" THEN pools.tgt_segs ELSE pools.tgt_units

\* the step is a stretch_match call
IsStretchCall ==
    /\ pc = "stretching"
    /\ call = Idle => stretch_map' # stretch_map

\* the sequence tiles the span: it starts at its start, ends at its end,
\* consecutive elements do not overlap and the source text strictly
\* between them is whitespace
TilesSpan(seq, span) ==
    /\ seq # <<>>
    /\ seq[1].span[1] = span[1]
    /\ seq[Len(seq)].span[2] = span[2]
    /\ \A k \in 1..(Len(seq) - 1) :
          /\ seq[k].span[2] <= seq[k + 1].span[1]
          /\ \A p \in seq[k].span[2]..(seq[k + 1].span[1] - 1) : p \in srcWS

\* C14: in every stretch_match call, a target candidate that is cleared
\* from abnormal_tgt_only by the merge branch is cleared together with a
\* sequence of source candidates that tiles its shifted span without
\* overlap and with only whitespace in between
C14_MergeIsSound ==
    [][IsStretchCall =>
         LET cands_src == enclosed(CallEntry[1], CallSrcPool)
             cands_tgt == enclosed(CallEntry[2], CallTgtPool)
         IN  \A k \in 1..Len(cands_tgt) :
               LET span_tgt == Shifted(cands_tgt[k].span)
                   seq == src_equiv_seq(span_tgt, cands_src)
               IN  (/\ src_equiv(span_tgt, cands_src) = <<>>
                    /\ MergeFound(span_tgt, seq, Texts)
                    /\ Contains(abnormal_tgt_only, cands_tgt[k])
                    /\ ~Contains(abnormal_tgt_only', cands_tgt[k]))
                   => TilesSpan(seq, span_tgt)]_vars

(***************************************************************************)
(* C15: an annotation consumed by one stretch_match call is not a          *)
(* candidate of a later one.                                               *)
(***************************************************************************)
\* the annotation is still listed as unmatched
Unconsumed(anno) ==
    \/ Contains(abnormal_src_only, anno)
    \/ Contains(expected_src_only, anno)
    \/ Contains(abnormal_tgt_only, anno)

GapsListed == pc = "listed" /\ tgtLen > 0

\* the side of a match triple the listing is about: 1 source, 2 target
GapSide == IF query.fn = "src_gaps" THEN 1 ELSE 2

\* the text of the shift-model runs: the target has tgtLen characters, the
\* source as many as the longest text of these runs
DocPositions == IF GapSide = 1 THEN 0..(MaxShiftPos - 1) ELSE 0..(tgtLen - 1)

Covered(p, side) ==
    \E m \in MatchSet : m[side] <= p /\ p < m[side] + m[3]

InGapOf(p, gap) == gap[1] <= p /\ p < gap[1] + gap[2]

\* ascending, of positive length, disjoint from each other and from the
\* matches
WellFormedGaps(gaps, side) ==
    /\ \A k \in 1..Len(gaps) : gaps[k][1] >= 0 /\ gaps[k][2] > 0
    /\ \A k \in 1..(Len(gaps) - 1) : gaps[k][1] + gaps[k][2] <= gaps[k + 1][1]
    /\ \A k \in 1..Len(gaps) : \A p \in gaps[k][1]..(gaps[k][1] + gaps[k][2] - 1) :
          ~Covered(p, side)

\* the end of the last match on the side
LastMatchEnd(side) ==
    IF matches = <<>> THEN 0
    ELSE matches[Len(matches)][side] + matches[Len(matches)][3]

\* C16 as stated: the gaps returned are well formed and a position of the
\* document is inside a returned gap if and only if no match covers it
C16_Original ==
    GapsListed =>
        /\ WellFormedGaps(query.result, GapSide)
        /\ \A p \in DocPositions :
              (\E k \in 1..Len(query.result) : InGapOf(p, query.result[k]))
                  <=> ~Covered(p, GapSide)

\* C16 amended: the gaps returned are well formed, they lie before the last
\* match, and a position before the end of the last match is inside a
\* returned gap if and only if no match covers it; the text after the last
\* match is in no gap
C16_GapsUpToLastMatch ==
    GapsListed =>
        /\ WellFormedGaps(query.result, GapSide)
        /\ \A p \in DocPositions :
              (\E k \in 1..Len(query.result) : InGapOf(p, query.result[k]))
                  <=> (~Covered(p, GapSide) /\ p < LastMatchEnd(GapSide))

\* src_gaps has listed a gap of the source between two matches, and the
\* source has text after the last match
C16_Witness ==
    /\ GapsListed
    /\ query.fn = "src_gaps"
    /\ Len(matches) >= 2
    /\ \E k \in 1..Len(query.result) : query.result[k][1] > 0
    /\ LastMatchEnd(1) < MaxShiftPos

(***************************************************************************)
(* C17: compute_structural_updates changes nothing outside the structural  *)
(* kinds.                                                                  *)
(***************************************************************************)
IsKind(anno, kinds) == Lower(anno.type) \in kinds

\* a step of compute_structural_updates
StructuralStep == pc \in {"computed", "stretching"}

\* the step clears the annotation from the lists
Cleared(anno) ==
    /\ Unconsumed(anno)
    /\ ~Contains(abnormal_src_only', anno)
    /\ ~Contains(expected_src_only', anno)
    /\ ~Contains(abnormal_tgt_only', anno)

SameMembership(anno) ==
    /\ Contains(abnormal_src_only', anno) <=> Contains(abnormal_src_only, anno)
    /\ Contains(expected_src_only', anno) <=> Contains(expected_src_only, anno)
    /\ Contains(abnormal_tgt_only', anno) <=> Contains(abnormal_tgt_only, anno)

\* C17: every step of compute_structural_updates leaves shift_if_ge as it
\* is and leaves the list membership of every source annotation that is
\* neither a dialogue nor a segment, and of every target annotation that is
\* neither a dialogue, a segment nor a discourse-act unit; a source
\* dialogue is only cleared by a call whose target candidates are
\* dialogues, a source segment only by a call whose target candidates are
\* segments or discourse-act units, and a target annotation only by a call
\* whose source candidates are dialogues for a target dialogue and
\* segments for a target segment or unit
C17_OnlyStructuralKindsChange ==
    [][StructuralStep =>
         /\ shift_if_ge' = shift_if_ge
         /\ \A anno \in Range(srcUnits) :
               ~IsKind(anno, {"dialogue", "segment"}) => SameMembership(anno)
         /\ \A anno \in Range(tgtUnits) :
               ~IsKind(anno, {"dialogue", "segment"} \cup UNITS) => SameMembership(anno)
         /\ \A anno \in Range(srcUnits) :
               Cleared(anno) =>
                   /\ IsStretchCall
                   /\ IsKind(anno, {"dialogue"}) =>
                         \A cand \in Range(CallTgtPool) : IsKind(cand, {"dialogue"})
                   /\ IsKind(anno, {"segment"}) =>
                         \A cand \in Range(CallTgtPool) : IsKind(cand, {"segment"} \cup UNITS)
         /\ \A anno \in Range(tgtUnits) :
               Cleared(anno) =>
                   /\ IsStretchCall
                   /\ IsKind(anno, {"dialogue"}) =>
                         \A cand \in Range(CallSrcPool) : IsKind(cand, {"dialogue"})
                   /\ IsKind(anno, {"segment"} \cup UNITS) =>
                         \A cand \in Range(CallSrcPool) : IsKind(cand, {"segment"})]_vars

\* the structural pass has paired a source dialogue with a target dialogue
\* and has left a source turn on the same span in its list
C17_Witness ==
    /\ StructuralDone
    /\ \E S \in Range(pools.src_dlgs), T \in Range(pools.tgt_dlgs),
          turn \in Range(srcUnits) :
          /\ ~Unconsumed(S) /\ ~Unconsumed(T)
          /\ Shifted(T.span) = S.span
          /\ turn.type = "Turn"
          /\ turn.span = S.span
          /\ Contains(expected_src_only, turn)

(***************************************************************************)
(* C18: shift_span agrees with the constant shift of the block.            *)
(***************************************************************************)
\* C18: for an Updates built from a match list that tiles the target, every
\* match (a, b, size) and every target span enclosed in [b, b + size),
\* empty or not, shift_span returns the span shifted by a - b: the result
\* has the length of the span and its start is not after its end
C18_ShiftSpanIsBlockShift ==
    (pc = "shifted" /\ query.fn = "shift_span" /\ Tiles) =>
        \A m \in MatchSet :
            Encloses(TgtBlock(m), query.arg) =>
                /\ ~query.raised
                /\ query.result = ShiftBy(query.arg, m[1] - m[2])
                /\ query.result[2] - query.result[1] = query.arg[2] - query.arg[1]
                /\ query.result[1] <= query.result[2]

====
